---- MODULE Spec2Model ----
(***************************************************************************)
(* Model of the prescription analysis pipeline                            *)
(* (backend/models/drug_analyzer.py, backend/models/granite_model.py,     *)
(* backend/data/drug_database.py, backend/utils/helpers.py).              *)
(*                                                                         *)
(* One analyze_prescription request is a state machine whose steps are    *)
(* the oracle's answers to the calls the request awaits: each action      *)
(* takes the answer to the pending generate_response call and runs the    *)
(* synchronous code that follows it up to the next await (or to the       *)
(* return / the escaping exception).                                       *)
(***************************************************************************)
EXTENDS Integers, Sequences, FiniteSets, TLC

VARIABLES
    text,                   \* request: prescription text, a sequence of words
    age,                    \* request: patient_age
    pc,                     \* where the request is: the await it is suspended at
    i, j,                   \* _analyze_interactions: the pair (i, j) being asked
    k,                      \* dosage / alternatives loop: the mention being asked
    extracted_drugs,        \* analyze_prescription: extracted_drugs
    interactions,           \* _analyze_interactions: interactions
    age_category,           \* _generate_dosage_recommendations: age_category
    dosage_recommendations, \* _generate_dosage_recommendations: recommendations
    alternatives,           \* _find_alternatives: alternatives (insertion-ordered dict)
    result,                 \* what analyze_prescription returned
    raised,                 \* the exception that escaped analyze_prescription
    calls,                  \* history: the generate_response calls issued, in order
    replies,                \* history: the oracle's answer to each call
    kb_lookups,             \* history: number of DrugDatabase.check_interactions calls
    arg,                    \* a function called on its own: its argument
    ret,                    \* a function called on its own: what it returned
    peer                    \* a second request served at the same time: its state

vars == <<text, age, pc, i, j, k, extracted_drugs, interactions, age_category,
          dosage_recommendations, alternatives, result, raised, calls, replies,
          kb_lookups, arg, ret, peer>>

-----------------------------------------------------------------------------
(* Bounds of the model *)

\* longest drug list the oracle returns for the extraction call
MaxMentions == 2
\* most post-extraction oracle calls of one request answered otherwise than
\* with the plain "nothing to report" answer
MaxDeviations == 1

-----------------------------------------------------------------------------
(* Python values.  A value read from the oracle's JSON can have any JSON   *)
(* type, so every value the pipeline handles is tagged with its type.      *)

None == [t |-> "null", v |-> ""]
JStr(s) == [t |-> "str", v |-> s]
JNum(s) == [t |-> "num", v |-> s]
JBool(s) == [t |-> "bool", v |-> s]
JList(items) == [t |-> "list", items |-> items]
JObj(f) == [t |-> "obj", f |-> f]
EmptyDict == JObj(<<>>)

\* bool(x) as Python's `if x:` computes it
Truthy(x) ==
    CASE x.t = "null" -> FALSE
      [] x.t = "bool" -> x.v = "true"
      [] x.t = "num"  -> x.v \notin {"0", "0.0"}
      [] x.t = "str"  -> x.v # ""
      [] x.t = "list" -> Len(x.items) > 0
      [] x.t = "obj"  -> DOMAIN x.f # {}

\* d.get(key, default) on a dict d
Get(d, key, default) == IF key \in DOMAIN d.f THEN d.f[key] ELSE default

\* hash(x) succeeds: x can be a dict key
Hashable(x) == x.t \notin {"list", "obj"}

-----------------------------------------------------------------------------
(* Letter case of the drug names that occur in the model: str.lower() and  *)
(* str.title() on single words.                                            *)

Spellings ==
    [ warfarin  |-> [title |-> "Warfarin",  upper |-> "WARFARIN"],
      aspirin   |-> [title |-> "Aspirin",   upper |-> "ASPIRIN"],
      ibuprofen |-> [title |-> "Ibuprofen", upper |-> "IBUPROFEN"],
      zolpidem  |-> [title |-> "Zolpidem",  upper |-> "ZOLPIDEM"],
      advil     |-> [title |-> "Advil",     upper |-> "ADVIL"],
      unknown   |-> [title |-> "Unknown",   upper |-> "UNKNOWN"] ]

SpellingsOf(b) == {b, Spellings[b].title, Spellings[b].upper}

Known(s) == \E b \in DOMAIN Spellings : s \in SpellingsOf(b)

lower(s) ==
    IF Known(s) THEN CHOOSE b \in DOMAIN Spellings : s \in SpellingsOf(b) ELSE s

title(s) == IF Known(s) THEN Spellings[lower(s)].title ELSE s

-----------------------------------------------------------------------------
(* DrugDatabase: the interaction table as _load_interactions fills it.     *)

Entry(sev, warn, rec) ==
    [severity |-> JStr(sev), warning |-> JStr(warn), recommendation |-> JStr(rec)]

db_interactions ==
    (<<"lisinopril", "hydrochlorothiazide">> :>
        Entry("MEDIUM", "May cause excessive reduction in blood pressure",
              "Monitor blood pressure closely")) @@
    (<<"warfarin", "aspirin">> :>
        Entry("HIGH", "Increased risk of bleeding",
              "Consider alternative or reduce warfarin dose")) @@
    (<<"warfarin", "ibuprofen">> :>
        Entry("HIGH", "NSAIDs increase bleeding risk with warfarin",
              "Avoid concurrent use or monitor INR closely")) @@
    (<<"ibuprofen", "aspirin">> :>
        Entry("MEDIUM",
              "Increased risk of GI bleeding and reduced cardioprotective effect",
              "Consider timing separation or alternative")) @@
    (<<"ibuprofen", "acetaminophen">> :>
        Entry("LOW", "Generally safe combination",
              "Monitor for hepatotoxicity with high doses")) @@
    (<<"metformin", "gliclazide">> :>
        Entry("LOW", "Additive hypoglycemic effect", "Monitor blood glucose levels")) @@
    (<<"amlodipine", "lisinopril">> :>
        Entry("LOW", "Complementary antihypertensive effects",
              "Good combination, monitor blood pressure")) @@
    (<<"atorvastatin", "amlodipine">> :>
        Entry("MEDIUM", "Amlodipine may increase atorvastatin levels",
              "Consider lower atorvastatin dose"))

\* self.interactions.get(key): None when the key is absent
TableGet(key) == IF key \in DOMAIN db_interactions THEN db_interactions[key] ELSE None

\* a lookup that tries the key in the given order only
GetInteractionOneWay(drug1, drug2) == TableGet(<<drug1, drug2>>)

\* _get_interaction(drug1, drug2): get((d1, d2)) or get((d2, d1))

_get_interaction(drug1, drug2) ==
    IF TableGet(<<drug1, drug2>>) # None
    THEN TableGet(<<drug1, drug2>>)
    ELSE TableGet(<<drug2, drug1>>)

\* the index pairs (a, b), a < b, in the order the nested loops visit them
RECURSIVE PairsFrom(_, _, _)
PairsFrom(a, b, n) ==
    IF a > n THEN <<>>
    ELSE IF b > n THEN PairsFrom(a + 1, a + 2, n)
    ELSE <<<<a, b>>>> \o PairsFrom(a, b + 1, n)

Pairs(n) == PairsFrom(1, 2, n)

\* the record check_interactions appends for a hit
DbRecord(drug1, drug2, interaction) ==
    [drug1 |-> JStr(title(drug1.v)), drug2 |-> JStr(title(drug2.v)),
     severity |-> interaction.severity, warning |-> interaction.warning,
     recommendation |-> interaction.recommendation]

RECURSIVE DbHits(_, _)
DbHits(drug_names, ps) ==
    IF ps = <<>> THEN <<>>
    ELSE LET drug1 == drug_names[Head(ps)[1]]
             drug2 == drug_names[Head(ps)[2]]
             interaction == _get_interaction(lower(drug1.v), lower(drug2.v))
         IN  (IF interaction # None
              THEN <<DbRecord(drug1, drug2, interaction)>> ELSE <<>>)
             \o DbHits(drug_names, Tail(ps))

\* check_interactions(drug_names): drug1.lower() raises AttributeError on a
\* name that is not a str; every name of a list of two or more is lowered
check_interactions(drug_names) ==
    IF Len(drug_names) >= 2 /\ \E n \in DOMAIN drug_names : drug_names[n].t # "str"
    THEN [raises |-> "AttributeError", value |-> <<>>]
    ELSE [raises |-> "", value |-> DbHits(drug_names, Pairs(Len(drug_names)))]

-----------------------------------------------------------------------------
(* Age categories *)

\* DrugAnalyzer._get_age_category
_get_age_category(a) ==
    IF a < 2 THEN "Infant"
    ELSE IF a < 12 THEN "Child"
    ELSE IF a < 18 THEN "Adolescent"
    ELSE IF a < 65 THEN "Adult"
    ELSE "Elderly"

\* helpers.calculate_age_category
calculate_age_category(a) ==
    IF a < 0 THEN "Invalid"
    ELSE IF a < 1 THEN "Neonate"
    ELSE IF a < 2 THEN "Infant"
    ELSE IF a < 12 THEN "Child"
    ELSE IF a < 18 THEN "Adolescent"
    ELSE IF a < 65 THEN "Adult"
    ELSE "Elderly"

-----------------------------------------------------------------------------
(* The oracle.  generate_response either raises or returns a text.  A text *)
(* is described by its form and by the object its brace-delimited span     *)
(* denotes:                                                                *)
(*   plain    no '{' ... '}' span at all                                   *)
(*   json     the whole text is one valid JSON object                      *)
(*   wrapped  a valid JSON object with prose before and after it           *)
(*   broken   a '{' ... '}' span that json.loads rejects                   *)

Raise == [kind |-> "raise", form |-> "", body |-> None]
Text(form, body) == [kind |-> "text", form |-> form, body |-> body]
Plain == Text("plain", None)
Broken == Text("broken", None)

\* re.search(r'\{.*\}', response, re.DOTALL) followed by json.loads of the
\* span: "nomatch", "error" (JSONDecodeError) or "ok" with the parsed dict
ParseSpan(response) ==
    CASE response.form = "plain"  -> [status |-> "nomatch", value |-> None]
      [] response.form = "broken" -> [status |-> "error", value |-> None]
      [] response.form \in {"json", "wrapped"} ->
            [status |-> "ok", value |-> response.body]

-----------------------------------------------------------------------------
(* GraniteModel._parse_drug_extraction: the lexical fallback.  The         *)
(* prescription text is a sequence of whitespace-separated words.          *)

\* words of the model's texts that  [A-Z][a-z]+(?:in|ol|ide|ine|ate|pam|zole|cillin)
\* matches as a whole word, ignoring case
SuffixWords == {"warfarin", "aspirin"}
\* (Aspirin|Ibuprofen|Acetaminophen|Tylenol|Advil), ignoring case
AllowList == {"aspirin", "ibuprofen", "acetaminophen", "tylenol", "advil"}
\* words of the model's texts made of four letters or more: [A-Z][a-z]{3,}
LongWords == {"warfarin", "aspirin", "advil", "take", "daily", "rest"}
\* \d+\s*mg
MgDoses == {"5mg", "75mg"}
\* \d+\s*g
GDoses == {"1g"}

\* whether drug_patterns[p] matches with group(1) = txt[n]
PatternMatches(p, txt, n) ==
    CASE p = 1 -> lower(txt[n]) \in SuffixWords
      [] p = 2 -> lower(txt[n]) \in AllowList
      [] p = 3 -> /\ lower(txt[n]) \in LongWords
                  /\ n < Len(txt)
                  /\ txt[n + 1] \in MgDoses

\* dosage_match: the first "<drug_name> <dose>" of the text, ignoring case
DosageOf(drug_name, txt) ==
    LET at == { n \in 1..(Len(txt) - 1) :
                  lower(txt[n]) = lower(drug_name) /\ txt[n + 1] \in MgDoses \cup GDoses }
    IN  IF at = {} THEN "Not specified"
        ELSE txt[(CHOOSE n \in at : \A m \in at : n <= m) + 1]

\* the first freq_pattern that matches anywhere in the text
FrequencyOf(txt) ==
    IF \E n \in 1..(Len(txt) - 1) : txt[n] = "once" /\ txt[n + 1] = "daily"
    THEN "once daily"
    ELSE IF \E n \in DOMAIN txt : txt[n] = "daily" THEN "daily"
    ELSE "Not specified"

FallbackDrug(drug_name, txt) ==
    JObj([name |-> JStr(drug_name), dosage |-> JStr(DosageOf(drug_name, txt)),
          frequency |-> JStr(FrequencyOf(txt)), confidence |-> JNum("0.8")])

RECURSIVE ScanPattern(_, _, _)
ScanPattern(p, txt, n) ==
    IF n > Len(txt) THEN <<>>
    ELSE (IF PatternMatches(p, txt, n) THEN <<FallbackDrug(txt[n], txt)>> ELSE <<>>)
         \o ScanPattern(p, txt, n + 1)

FallbackDrugs(txt) ==
    ScanPattern(1, txt, 1) \o ScanPattern(2, txt, 1) \o ScanPattern(3, txt, 1)

\* _parse_drug_extraction(response, original_text)
_parse_drug_extraction(response, original_text) ==
    LET parsed == ParseSpan(response)
    IN  IF parsed.status = "ok" /\ "drugs" \in DOMAIN parsed.value.f
        THEN parsed.value
        ELSE JObj([drugs |-> JList(FallbackDrugs(original_text))])

-----------------------------------------------------------------------------
(* DrugAnalyzer._format_extracted_drugs *)

FormatDrug(drug) ==
    [word       |-> Get(drug, "name", JStr("Unknown")),
     confidence |-> Get(drug, "confidence", JNum("0.8")),
     sources    |-> JList(<<JStr("granite")>>),
     dosage     |-> Get(drug, "dosage", JStr("Not specified")),
     frequency  |-> Get(drug, "frequency", JStr("Not specified")),
     sentiment  |-> JStr("Neutral")]

\* `for drug in drugs: drug.get(...)`: iterating None or a number raises
\* TypeError; an element without .get (a character of a str, a key of a dict, a
\* list item that is no dict) raises AttributeError
_format_extracted_drugs(drugs) ==
    CASE drugs.t \in {"null", "num", "bool"} ->
            [raises |-> "TypeError", value |-> <<>>]
      [] drugs.t = "str" ->
            [raises |-> IF drugs.v = "" THEN "" ELSE "AttributeError", value |-> <<>>]
      [] drugs.t = "obj" ->
            [raises |-> IF DOMAIN drugs.f = {} THEN "" ELSE "AttributeError",
             value |-> <<>>]
      [] drugs.t = "list" ->
            IF \E n \in DOMAIN drugs.items : drugs.items[n].t # "obj"
            THEN [raises |-> "AttributeError", value |-> <<>>]
            ELSE [raises |-> "",
                  value |-> [n \in DOMAIN drugs.items |-> FormatDrug(drugs.items[n])]]

-----------------------------------------------------------------------------
(* DrugAnalyzer: the handlers of one oracle answer *)

PairRecord(drug1, drug2, parsed) ==
    [drug1 |-> drug1, drug2 |-> drug2,
     severity |-> Get(parsed, "severity", JStr("MEDIUM")),
     warning |-> Get(parsed, "warning", JStr("Potential interaction detected")),
     recommendation |-> Get(parsed, "recommendation", JStr("Consult healthcare provider"))]

\* a pair check that keeps quiet about a pair the table already covers
CheckPairUnlessKnown(drug1, drug2, reply) ==
    IF reply.kind = "raise" \/ _get_interaction(lower(drug1.v), lower(drug2.v)) # None
    THEN <<>>
    ELSE LET parsed == ParseSpan(reply)
         IN  IF parsed.status = "ok"
                /\ Truthy(Get(parsed.value, "has_interaction", JBool("false")))
             THEN <<PairRecord(drug1, drug2, parsed.value)>>
             ELSE <<>>

\* _check_drug_pair_interaction(drug1, drug2) given the oracle's answer: the
\* records to append to interactions (none when it returns None)
_check_drug_pair_interaction(drug1, drug2, reply) ==
    IF reply.kind = "raise" THEN <<>>
    ELSE LET parsed == ParseSpan(reply)
         IN  IF parsed.status = "ok"
                /\ Truthy(Get(parsed.value, "has_interaction", JBool("false")))
             THEN <<PairRecord(drug1, drug2, parsed.value)>>
             ELSE <<>>

FallbackText(category) ==
    CASE category = "Infant" ->
            "Standard adult dosing may need adjustment for infant patients"
      [] category = "Child" ->
            "Standard adult dosing may need adjustment for child patients"
      [] category = "Adolescent" ->
            "Standard adult dosing may need adjustment for adolescent patients"
      [] category = "Adult" ->
            "Standard adult dosing may need adjustment for adult patients"
      [] category = "Elderly" ->
            "Standard adult dosing may need adjustment for elderly patients"

FallbackRecommendation(drug_name, category) ==
    JObj([drug |-> drug_name, age_category |-> JStr(category),
          recommendation |-> JStr(FallbackText(category)),
          warnings |-> JList(<<JStr("Consult healthcare provider for appropriate dosing")>>),
          monitoring |-> JList(<<JStr("Regular monitoring recommended")>>)])

\* an advisor that, like the alternatives advisor, gives nothing when the text
\* holds no parseable object
DosageOrNothing(drug_name, category, reply) ==
    IF reply.kind = "raise" THEN None
    ELSE LET parsed == ParseSpan(reply)
         IN  IF parsed.status = "ok" THEN parsed.value ELSE None

\* _get_dosage_recommendation(drug_name, age, age_category, weight) given the
\* oracle's answer: the returned value (None after a caught exception)
_get_dosage_recommendation(drug_name, category, reply) ==
    IF reply.kind = "raise" THEN None
    ELSE LET parsed == ParseSpan(reply)
         IN  IF parsed.status = "ok" THEN parsed.value
             ELSE FallbackRecommendation(drug_name, category)

\* the loop body of _generate_dosage_recommendations: `if recommendation:`
DosageAppend(recommendations, recommendation) ==
    IF Truthy(recommendation) THEN Append(recommendations, recommendation)
    ELSE recommendations

\* _get_drug_alternatives(drug_name, conditions) given the oracle's answer
_get_drug_alternatives(reply) ==
    IF reply.kind = "raise" THEN None
    ELSE LET parsed == ParseSpan(reply)
         IN  IF parsed.status = "ok" THEN parsed.value ELSE None

\* d[key] = value on an insertion-ordered dict kept as a sequence of items
DictSet(d, key, value) ==
    IF \E n \in DOMAIN d : d[n].key = key
    THEN [n \in DOMAIN d |-> IF d[n].key = key THEN [key |-> key, value |-> value]
                             ELSE d[n]]
    ELSE Append(d, [key |-> key, value |-> value])

\* the loop body of _find_alternatives: `if alt_info: alternatives[word] = alt_info`
\* inside try/except (an unhashable word raises TypeError, which is logged)
AlternativesPut(alts, word, alt_info) ==
    IF Truthy(alt_info) /\ Hashable(word) THEN DictSet(alts, word, alt_info) ELSE alts

RECURSIVE DictOf(_, _)
DictOf(drugs, n) ==
    IF n = 0 THEN <<>>
    ELSE DictSet(DictOf(drugs, n - 1), drugs[n].word, drugs[n].confidence)

\* a tier test that forgets the empty list
ComplexityOfSome(drugs) ==
    IF Len(drugs) > 0 /\ Len(drugs) <= 2 THEN "Simple" ELSE "Medium"

Complexity(drugs) == IF Len(drugs) > 2 THEN "Medium" ELSE "Simple"

\* insights whose total counts the distinct names instead of the mentions
InsightsCountingNames(drugs) ==
    IF \E n \in DOMAIN drugs : ~Hashable(drugs[n].word)
    THEN [raises |-> "TypeError", value |-> None]
    ELSE [raises |-> "",
          value |-> [extraction_method |-> "IBM Granite 2B Instruct Model",
                     models_used |-> <<"granite">>,
                     prescription_complexity |-> Complexity(drugs),
                     total_drugs_found |-> Len(DictOf(drugs, Len(drugs))),
                     confidence_scores |-> DictOf(drugs, Len(drugs))]]

\* _generate_ai_insights(drugs, original_text): the dict comprehension raises
\* TypeError on a word that cannot be a key
_generate_ai_insights(drugs) ==
    IF \E n \in DOMAIN drugs : ~Hashable(drugs[n].word)
    THEN [raises |-> "TypeError", value |-> None]
    ELSE [raises |-> "",
          value |-> [extraction_method |-> "IBM Granite 2B Instruct Model",
                     models_used |-> <<"granite">>,
                     prescription_complexity |-> Complexity(drugs),
                     total_drugs_found |-> Len(drugs),
                     confidence_scores |-> DictOf(drugs, Len(drugs))]]

\* the records of any severity
AnySeverity(inter) == DOMAIN inter

\* [i for i in interactions if i.get("severity") == "HIGH"]
HighRisk(inter) == { n \in DOMAIN inter : inter[n].severity = JStr("HIGH") }

\* the warnings with the elderly warning starting at 65
GenerateWarningsFrom65(drugs, inter, a) ==
    (IF HighRisk(inter) # {}
     THEN <<[text |-> "{n} high-risk drug interactions detected!",
             n |-> Cardinality(HighRisk(inter))]>>
     ELSE <<>>)
    \o (IF a < 18
        THEN <<[text |-> "Pediatric patient - dosages may need adjustment", n |-> 0]>>
        ELSE IF a >= 65
        THEN <<[text |-> "Elderly patient - increased risk of adverse effects", n |-> 0]>>
        ELSE <<>>)
    \o (IF Len(drugs) > 5
        THEN <<[text |-> "Polypharmacy detected - review for potential drug interactions",
                n |-> 0]>>
        ELSE <<>>)

\* the warnings with the polypharmacy warning starting at five mentions
GenerateWarningsFromFive(drugs, inter, a) ==
    (IF HighRisk(inter) # {}
     THEN <<[text |-> "{n} high-risk drug interactions detected!",
             n |-> Cardinality(HighRisk(inter))]>>
     ELSE <<>>)
    \o (IF a < 18
        THEN <<[text |-> "Pediatric patient - dosages may need adjustment", n |-> 0]>>
        ELSE IF a > 65
        THEN <<[text |-> "Elderly patient - increased risk of adverse effects", n |-> 0]>>
        ELSE <<>>)
    \o (IF Len(drugs) >= 5
        THEN <<[text |-> "Polypharmacy detected - review for potential drug interactions",
                n |-> 0]>>
        ELSE <<>>)

\* _generate_warnings(drugs, interactions, age); a warning is its text and the
\* number formatted into it
_generate_warnings(drugs, inter, a) ==
    (IF HighRisk(inter) # {}
     THEN <<[text |-> "{n} high-risk drug interactions detected!",
             n |-> Cardinality(HighRisk(inter))]>>
     ELSE <<>>)
    \o (IF a < 18
        THEN <<[text |-> "Pediatric patient - dosages may need adjustment", n |-> 0]>>
        ELSE IF a > 65
        THEN <<[text |-> "Elderly patient - increased risk of adverse effects", n |-> 0]>>
        ELSE <<>>)
    \o (IF Len(drugs) > 5
        THEN <<[text |-> "Polypharmacy detected - review for potential drug interactions",
                n |-> 0]>>
        ELSE <<>>)

-----------------------------------------------------------------------------
(* The requests and the oracle's answers the model draws from *)

Requests ==
    { [text |-> <<"Aspirin", "5mg", "and", "Warfarin">>, age |-> 68],
      [text |-> <<"take", "Advil", "5mg", "daily">>, age |-> 0],
      [text |-> <<"rest", "daily">>, age |-> 40],
      [text |-> <<>>, age |-> -1] }

\* entries of the oracle's drug list
DrugW ==
    JObj([name |-> JStr("Warfarin"), dosage |-> JStr("5mg"),
          frequency |-> JStr("once daily"), confidence |-> JNum("0.95")])
DrugA == JObj([name |-> JStr("ASPIRIN"), confidence |-> JStr("high")])
DrugNameless == EmptyDict
DrugNumberName == JObj([name |-> JNum("5")])
DrugListName == JObj([name |-> JList(<<JStr("Aspirin")>>)])
DrugNotObject == JNum("7")

DrugEntries == {DrugW, DrugA, DrugNameless, DrugNumberName, DrugListName, DrugNotObject}

SeqsUpTo(S, n) == UNION { [1..m -> S] : m \in 0..n }

ExtractionReplies ==
    {Raise, Plain, Broken,
     Text("json", JObj([medications |-> JList(<<>>)])),
     Text("json", JObj([drugs |-> None])),
     Text("wrapped", JObj([drugs |-> JStr("aspirin")]))}
    \cup { Text("json", JObj([drugs |-> JList(l)])) : l \in SeqsUpTo(DrugEntries, MaxMentions) }

NoInteraction == Text("json", JObj([has_interaction |-> JBool("false")]))
InteractionHigh ==
    Text("json", JObj([has_interaction |-> JBool("true"), severity |-> JStr("HIGH"),
                       warning |-> JStr("Major interaction"),
                       recommendation |-> JStr("Avoid combination")]))
InteractionBare == Text("wrapped", JObj([has_interaction |-> JBool("true")]))
PairReplies == {NoInteraction, InteractionHigh, InteractionBare, Raise, Broken}

Advice ==
    Text("json", JObj([drug |-> JStr("Warfarin"), age_category |-> JStr("Adult"),
                       recommendation |-> JStr("2-5 mg once daily"),
                       warnings |-> JList(<<JStr("Bleeding risk")>>),
                       monitoring |-> JList(<<JStr("INR")>>)]))
DosageReplies == {Advice, Text("json", EmptyDict), Plain, Broken, Raise}

Suggestion ==
    Text("wrapped", JObj([original_drug |-> JStr("Warfarin"),
                          drug_class |-> JStr("Anticoagulant"),
                          alternatives |-> JList(<<JStr("Apixaban")>>)]))
AlternativesReplies == {Suggestion, Text("json", EmptyDict), Broken, Raise}

RepliesTo(kind) ==
    CASE kind = "extract" -> ExtractionReplies
      [] kind = "pair"    -> PairReplies
      [] kind = "dosage"  -> DosageReplies
      [] kind = "alt"     -> AlternativesReplies

\* the answer that reports nothing unusual, for a call made after extraction
Nominal(kind, reply) ==
    \/ kind = "pair"   /\ reply = NoInteraction
    \/ kind = "dosage" /\ reply = Advice
    \/ kind = "alt"    /\ reply = Suggestion

Deviations ==
    Cardinality({ n \in 2..Len(replies) : ~Nominal(calls[n].kind, replies[n]) })

-----------------------------------------------------------------------------
(* analyze_prescription as a state machine.  The part of the state the     *)
(* request changes is handled as one record, so that each stretch of       *)
(* synchronous code is an operator from state to state.                    *)

Call(kind, args, max_new_tokens) ==
    [kind |-> kind, args |-> args, max_new_tokens |-> max_new_tokens]

Current ==
    [pc |-> pc, i |-> i, j |-> j, k |-> k, extracted_drugs |-> extracted_drugs,
     interactions |-> interactions, age_category |-> age_category,
     dosage_recommendations |-> dosage_recommendations,
     alternatives |-> alternatives, result |-> result, raised |-> raised,
     calls |-> calls, kb_lookups |-> kb_lookups]

Become(S) ==
    /\ pc' = S.pc
    /\ i' = S.i
    /\ j' = S.j
    /\ k' = S.k
    /\ extracted_drugs' = S.extracted_drugs
    /\ interactions' = S.interactions
    /\ age_category' = S.age_category
    /\ dosage_recommendations' = S.dosage_recommendations
    /\ alternatives' = S.alternatives
    /\ result' = S.result
    /\ raised' = S.raised
    /\ calls' = S.calls
    /\ kb_lookups' = S.kb_lookups

\* an exception escapes analyze_prescription
Abort(S, exception) == [S EXCEPT !.pc = "raised", !.raised = exception]

\* analyze_prescription, lines 42-55: insights, warnings, the returned dict
Return(S) ==
    LET insights == _generate_ai_insights(S.extracted_drugs)
    IN  IF insights.raises # "" THEN Abort(S, insights.raises)
        ELSE [S EXCEPT !.pc = "done",
                       !.result =
                          [extracted_drugs |-> S.extracted_drugs,
                           interactions |-> S.interactions,
                           dosage_recommendations |-> S.dosage_recommendations,
                           alternatives |-> S.alternatives,
                           ai_insights |-> insights.value,
                           warnings |-> _generate_warnings(S.extracted_drugs,
                                                           S.interactions, age)]]

\* drugs[:3]
AlternativesLimit == 3

\* a slice that takes the whole list
Unlimited(drugs) == Len(drugs)

Limited(drugs) == IF Len(drugs) > AlternativesLimit THEN AlternativesLimit ELSE Len(drugs)

AwaitAlternatives(S, n) ==
    [S EXCEPT !.pc = "alt", !.k = n,
              !.calls = Append(@, Call("alt", <<S.extracted_drugs[n].word>>, 300))]

\* _find_alternatives up to its first await
EnterAlternatives(S) ==
    IF Limited(S.extracted_drugs) = 0 THEN Return(S) ELSE AwaitAlternatives(S, 1)

AwaitDosage(S, n) ==
    [S EXCEPT !.pc = "dosage", !.k = n,
              !.calls = Append(@, Call("dosage", <<S.extracted_drugs[n].word,
                                                   JStr(S.age_category)>>, 250))]

\* _generate_dosage_recommendations up to its first await
EnterDosage(S) ==
    LET S1 == [S EXCEPT !.age_category = _get_age_category(age)]
    IN  IF Len(S.extracted_drugs) = 0 THEN EnterAlternatives(S1) ELSE AwaitDosage(S1, 1)

AwaitPair(S, a, b) ==
    [S EXCEPT !.pc = "pair", !.i = a, !.j = b,
              !.calls = Append(@, Call("pair", <<S.extracted_drugs[a].word,
                                                 S.extracted_drugs[b].word>>, 200))]

\* a guard that lets a single mention through
TooFewOffByOne(drugs) == Len(drugs) < 1

\* `if len(drugs) < 2: return []`
TooFew(drugs) == Len(drugs) < 2

\* _analyze_interactions up to its first await
EnterInteractions(S) ==
    IF TooFew(S.extracted_drugs) THEN EnterDosage(S)
    ELSE LET drug_names == [n \in DOMAIN S.extracted_drugs |-> S.extracted_drugs[n].word]
             db == check_interactions(drug_names)
             S1 == [S EXCEPT !.kb_lookups = @ + 1, !.interactions = db.value]
         IN  IF db.raises # "" THEN Abort(S1, db.raises)
             \* the nested loops have no pair to visit
             ELSE IF Pairs(Len(S.extracted_drugs)) = <<>> THEN EnterDosage(S1)
             ELSE AwaitPair(S1, 1, 2)

\* analyze_prescription after `await self.granite_model.extract_drugs(text)`
OnExtractionReply(S, reply) ==
    IF reply.kind = "raise" THEN Abort(S, "RuntimeError")
    ELSE LET drug_extraction == _parse_drug_extraction(reply, text)
             formatted == _format_extracted_drugs(
                              Get(drug_extraction, "drugs", JList(<<>>)))
         IN  IF formatted.raises # "" THEN Abort(S, formatted.raises)
             ELSE EnterInteractions([S EXCEPT !.extracted_drugs = formatted.value])

\* a pair loop that gives the reconciliation up when a call fails
OnPairReplyAborting(S, reply) ==
    LET n == Len(S.extracted_drugs)
        found == _check_drug_pair_interaction(S.extracted_drugs[S.i].word,
                                              S.extracted_drugs[S.j].word, reply)
        S1 == [S EXCEPT !.interactions = @ \o found]
    IN  IF reply.kind = "raise" THEN EnterDosage([S EXCEPT !.interactions = <<>>])
        ELSE IF S.j < n THEN AwaitPair(S1, S.i, S.j + 1)
        ELSE IF S.i + 1 < n THEN AwaitPair(S1, S.i + 1, S.i + 2)
        ELSE EnterDosage(S1)

\* a pair loop that collects the records in a list kept on the analyzer, which
\* every request served at the time appends to
OnPairReplySharing(S, reply) ==
    LET n == Len(S.extracted_drugs)
        found == _check_drug_pair_interaction(S.extracted_drugs[S.i].word,
                                              S.extracted_drugs[S.j].word, reply)
        S1 == [S EXCEPT !.interactions = interactions \o found]
    IN  IF S.j < n THEN AwaitPair(S1, S.i, S.j + 1)
        ELSE IF S.i + 1 < n THEN AwaitPair(S1, S.i + 1, S.i + 2)
        ELSE EnterDosage(S1)


\* _analyze_interactions after `await self._check_drug_pair_interaction(...)`
OnPairReply(S, reply) ==
    LET n == Len(S.extracted_drugs)
        found == _check_drug_pair_interaction(S.extracted_drugs[S.i].word,
                                              S.extracted_drugs[S.j].word, reply)
        S1 == [S EXCEPT !.interactions = @ \o found]
    IN  IF S.j < n THEN AwaitPair(S1, S.i, S.j + 1)
        ELSE IF S.i + 1 < n THEN AwaitPair(S1, S.i + 1, S.i + 2)
        ELSE EnterDosage(S1)

\* a dosage loop without its exception handlers
OnDosageReplyPropagating(S, reply) ==
    LET recommendation == _get_dosage_recommendation(S.extracted_drugs[S.k].word,
                                                     S.age_category, reply)
        S1 == [S EXCEPT !.dosage_recommendations = DosageAppend(@, recommendation)]
    IN  IF reply.kind = "raise" THEN Abort(S, "RuntimeError")
        ELSE IF S.k < Len(S.extracted_drugs) THEN AwaitDosage(S1, S.k + 1)
        ELSE EnterAlternatives(S1)

\* a dosage loop whose `return recommendations` sits inside the loop body
OnDosageReplyReturningEarly(S, reply) ==
    LET recommendation == _get_dosage_recommendation(S.extracted_drugs[S.k].word,
                                                     S.age_category, reply)
        S1 == [S EXCEPT !.dosage_recommendations = DosageAppend(@, recommendation)]
    IN  EnterAlternatives(S1)


\* _generate_dosage_recommendations after `await self._get_dosage_recommendation(...)`
OnDosageReply(S, reply) ==
    LET recommendation == _get_dosage_recommendation(S.extracted_drugs[S.k].word,
                                                     S.age_category, reply)
        S1 == [S EXCEPT !.dosage_recommendations = DosageAppend(@, recommendation)]
    IN  IF S.k < Len(S.extracted_drugs) THEN AwaitDosage(S1, S.k + 1)
        ELSE EnterAlternatives(S1)

\* _find_alternatives after `await self._get_drug_alternatives(...)`
OnAlternativesReply(S, reply) ==
    LET alt_info == _get_drug_alternatives(reply)
        S1 == [S EXCEPT !.alternatives =
                           AlternativesPut(@, S.extracted_drugs[S.k].word, alt_info)]
    IN  IF S.k < Limited(S.extracted_drugs) THEN AwaitAlternatives(S1, S.k + 1)
        ELSE Return(S1)

-----------------------------------------------------------------------------
(* Specification *)

\* no function is being called on its own
NoCall == None

\* no second request is being served
NoPeer == None

Init ==
    /\ \E r \in Requests : text = r.text /\ age = r.age
    /\ pc = "request"
    /\ i = 0 /\ j = 0 /\ k = 0
    /\ extracted_drugs = <<>>
    /\ interactions = <<>>
    /\ age_category = ""
    /\ dosage_recommendations = <<>>
    /\ alternatives = <<>>
    /\ result = None
    /\ raised = ""
    /\ calls = <<>>
    /\ replies = <<>>
    /\ kb_lookups = 0
    /\ arg = NoCall
    /\ ret = NoCall
    /\ peer = NoPeer

\* main.analyze_prescription (POST /analyze) up to its await: the request model
\* has typed the fields, the handler passes them on as they are, and
\* DrugAnalyzer.analyze_prescription runs up to the extraction call
AnalyzeRequested ==
    /\ pc = "request"
    /\ Become([Current EXCEPT !.pc = "extract",
                              !.calls = Append(@, Call("extract", <<>>, 300))])
    /\ UNCHANGED <<text, age, replies, arg, ret, peer>>

Answered(reply) ==
    /\ reply \in RepliesTo(pc)
    /\ pc = "extract" \/ Nominal(pc, reply) \/ Deviations < MaxDeviations
    /\ replies' = Append(replies, reply)
    /\ UNCHANGED <<text, age, arg, ret, peer>>

\* the extraction call returns or raises
ExtractionAnswered ==
    /\ pc = "extract"
    /\ \E reply \in ExtractionReplies :
          Answered(reply) /\ Become(OnExtractionReply(Current, reply))

\* a pairwise interaction call returns or raises
PairAnswered ==
    /\ pc = "pair"
    /\ \E reply \in PairReplies :
          Answered(reply) /\ Become(OnPairReply(Current, reply))

\* a dosage call returns or raises
DosageAnswered ==
    /\ pc = "dosage"
    /\ \E reply \in DosageReplies :
          Answered(reply) /\ Become(OnDosageReply(Current, reply))

\* an alternatives call returns or raises
AlternativesAnswered ==
    /\ pc = "alt"
    /\ \E reply \in AlternativesReplies :
          Answered(reply) /\ Become(OnAlternativesReply(Current, reply))

Next ==
    \/ AnalyzeRequested
    \/ ExtractionAnswered
    \/ PairAnswered
    \/ DosageAnswered
    \/ AlternativesAnswered

Spec == Init /\ [][Next]_vars

-----------------------------------------------------------------------------
(* _generate_warnings called on its own, on mention lists longer and ages  *)
(* more varied than the requests above produce                             *)

\* no request is being served
NoRequest ==
    /\ text = <<>> /\ age = 0
    /\ i = 0 /\ j = 0 /\ k = 0
    /\ extracted_drugs = <<>>
    /\ interactions = <<>>
    /\ age_category = ""
    /\ dosage_recommendations = <<>>
    /\ alternatives = <<>>
    /\ result = None
    /\ raised = ""
    /\ calls = <<>>
    /\ replies = <<>>
    /\ kb_lookups = 0

\* longest mention list and greatest age handed to _generate_warnings
MaxDrugs == 7
MaxAge == 70

InteractionLists ==
    LET stored == DbRecord(JStr("Warfarin"), JStr("Aspirin"),
                           _get_interaction("warfarin", "aspirin"))
        said == PairRecord(JStr("Warfarin"), JStr("Aspirin"), InteractionHigh.body)
        bare == PairRecord(JStr("Advil"), JStr("Aspirin"), InteractionBare.body)
    IN  {<<>>, <<bare>>, <<stored>>, <<stored, bare, said>>}

WarningInputs ==
    [drugs : { [n \in 1..m |-> FormatDrug(DrugW)] : m \in 0..MaxDrugs },
     interactions : InteractionLists,
     age : (-1)..MaxAge]

WarningsInit ==
    /\ NoRequest
    /\ pc = "warnings"
    /\ arg \in WarningInputs
    /\ ret = NoCall
    /\ peer = NoPeer

WarningsCalled ==
    /\ pc = "warnings"
    /\ pc' = "warned"
    /\ ret' = _generate_warnings(arg.drugs, arg.interactions, arg.age)
    /\ UNCHANGED <<text, age, i, j, k, extracted_drugs, interactions, age_category,
                   dosage_recommendations, alternatives, result, raised, calls,
                   replies, kb_lookups, arg, peer>>

SpecWarnings == WarningsInit /\ [][WarningsCalled]_vars

-----------------------------------------------------------------------------
(* helpers.safe_json_parse.  A text is a sequence of lexical tokens laid   *)
(* out as json.dumps lays them out (no blank between a key and its colon); *)
(* string contents are letters only.  The kinds of token:                  *)
(*   { } [ ] , :   punctuation                                             *)
(*   dq    a double-quoted string          sq    a single-quoted string    *)
(*   num   a number                        word  a bare word of prose      *)
(*   deep  a run of '[' longer than the interpreter's recursion limit      *)

Punct(c) == [k |-> c, s |-> ""]
Tok(kind, content) == [k |-> kind, s |-> content]

Decoded(value, next) == [err |-> "", value |-> value, next |-> next]
DecodeError == [err |-> "JSONDecodeError", value |-> None, next |-> 0]
TooDeep == [err |-> "RecursionError", value |-> None, next |-> 0]

\* the decoder of json.loads: the value that starts at token p
RECURSIVE ScanValue(_, _)
RECURSIVE ScanMembers(_, _, _)
RECURSIVE ScanElements(_, _, _)

ScanValue(toks, p) ==
    IF p > Len(toks) THEN DecodeError
    ELSE CASE toks[p].k = "dq"   -> Decoded(JStr(toks[p].s), p + 1)
           [] toks[p].k = "num"  -> Decoded(JNum(toks[p].s), p + 1)
           [] toks[p].k = "deep" -> TooDeep
           [] toks[p].k = "{" ->
                 IF p < Len(toks) /\ toks[p + 1].k = "}"
                 THEN Decoded(EmptyDict, p + 2)
                 ELSE ScanMembers(toks, p + 1, <<>>)
           [] toks[p].k = "[" ->
                 IF p < Len(toks) /\ toks[p + 1].k = "]"
                 THEN Decoded(JList(<<>>), p + 2)
                 ELSE ScanElements(toks, p + 1, <<>>)
           [] OTHER -> DecodeError

\* "key": value pairs up to the closing brace; a later key replaces an earlier one
ScanMembers(toks, p, f) ==
    IF p + 1 > Len(toks) \/ toks[p].k # "dq" \/ toks[p + 1].k # ":" THEN DecodeError
    ELSE LET v == ScanValue(toks, p + 2)
             g == (toks[p].s :> v.value) @@ f
         IN  IF v.err # "" THEN v
             ELSE IF v.next > Len(toks) THEN DecodeError
             ELSE IF toks[v.next].k = "," THEN ScanMembers(toks, v.next + 1, g)
             ELSE IF toks[v.next].k = "}" THEN Decoded(JObj(g), v.next + 1)
             ELSE DecodeError

\* values up to the closing bracket
ScanElements(toks, p, items) ==
    LET v == ScanValue(toks, p)
    IN  IF v.err # "" THEN v
        ELSE IF v.next > Len(toks) THEN DecodeError
        ELSE IF toks[v.next].k = "," THEN ScanElements(toks, v.next + 1, Append(items, v.value))
        ELSE IF toks[v.next].k = "]" THEN Decoded(JList(Append(items, v.value)), v.next + 1)
        ELSE DecodeError

\* json.loads(text): one value and nothing after it
loads(toks) ==
    LET v == ScanValue(toks, 1)
    IN  IF v.err = "" /\ v.next <= Len(toks) THEN DecodeError ELSE v

\* re.search(r'\{.*\}', text, re.DOTALL): from the first '{' to the last '}'
BraceSpan(toks) ==
    LET opens == { n \in DOMAIN toks : toks[n].k = "{" }
        first == CHOOSE n \in opens : \A m \in opens : n <= m
        closes == { n \in DOMAIN toks : toks[n].k = "}" /\ n > first }
        last == CHOOSE n \in closes : \A m \in closes : m <= n
    IN  IF opens = {} \/ closes = {} THEN [found |-> FALSE, group |-> <<>>]
        ELSE [found |-> TRUE, group |-> SubSeq(toks, first, last)]

\* re.sub(r"'([^']*)':", r'"\1":', ...): a single-quoted string right before a colon
QuoteKeys(toks) ==
    [n \in DOMAIN toks |->
        IF toks[n].k = "sq" /\ n < Len(toks) /\ toks[n + 1].k = ":"
        THEN Tok("dq", toks[n].s) ELSE toks[n]]

\* re.sub(r":\s*'([^']*)'", r': "\1"', ...): a single-quoted string right after a colon
QuoteValues(toks) ==
    [n \in DOMAIN toks |->
        IF toks[n].k = "sq" /\ n > 1 /\ toks[n - 1].k = ":"
        THEN Tok("dq", toks[n].s) ELSE toks[n]]

\* re.sub(r',(\s*[}\]])', r'\1', ...): a comma right before a closing brace or bracket
RECURSIVE DropTrailingCommas(_, _)
DropTrailingCommas(toks, n) ==
    IF n > Len(toks) THEN <<>>
    ELSE (IF toks[n].k = "," /\ n < Len(toks) /\ toks[n + 1].k \in {"}", "]"}
          THEN <<>> ELSE <<toks[n]>>)
         \o DropTrailingCommas(toks, n + 1)

\* the third attempt's cleaned_text
Repaired(toks) == DropTrailingCommas(QuoteValues(QuoteKeys(toks)), 1)

Returned(value) == [raises |-> "", value |-> value]
Escaped(exception) == [raises |-> exception, value |-> None]

\* the second and third attempt of safe_json_parse
RepairAttempt(toks) ==
    LET third == loads(Repaired(toks))
    IN  IF third.err = "" THEN Returned(third.value)
        ELSE IF third.err = "JSONDecodeError" THEN Returned(None)
        ELSE Escaped(third.err)

SpanAttempt(toks) ==
    LET json_match == BraceSpan(toks)
        second == loads(json_match.group)
    IN  IF ~json_match.found THEN RepairAttempt(toks)
        ELSE IF second.err = "" THEN Returned(second.value)
        ELSE IF second.err = "JSONDecodeError" THEN RepairAttempt(toks)
        ELSE Escaped(second.err)

\* a parser that looks for the brace span first, as the analyzer's handlers do
SpanFirst(toks) ==
    IF toks = <<>> THEN Returned(None)
    ELSE LET json_match == BraceSpan(toks)
             second == loads(json_match.group)
             first == loads(toks)
         IN  IF json_match.found /\ second.err = "" THEN Returned(second.value)
             ELSE IF first.err = "" THEN Returned(first.value)
             ELSE RepairAttempt(toks)

\* safe_json_parse(text): only json.JSONDecodeError is caught
safe_json_parse(toks) ==
    IF toks = <<>> THEN Returned(None)
    ELSE LET first == loads(toks)
         IN  IF first.err = "" THEN Returned(first.value)
             ELSE IF first.err = "JSONDecodeError" THEN SpanAttempt(toks)
             ELSE Escaped(first.err)

-----------------------------------------------------------------------------
(* safe_json_parse called on its own.  The texts are the renderings of a   *)
(* family of structured values (double- or single-quoted, with or without  *)
(* a comma before the last closing brace or bracket, alone or inside       *)
(* prose) and some texts that are no rendering of anything.                *)

\* deepest nesting of the values rendered
MaxDepth == 2

Atoms == {JStr("b"), JNum("1")}

RECURSIVE Values(_)
Values(d) ==
    IF d = 0 THEN Atoms \cup {EmptyDict, JList(<<>>)}
    ELSE LET inner == Values(d - 1)
         IN  inner
             \cup { JList(<<x>>) : x \in inner }
             \cup { JList(<<JNum("1"), x>>) : x \in Atoms }
             \cup { JObj([a |-> x]) : x \in inner }
             \cup { JObj([a |-> x, c |-> JNum("1")]) : x \in Atoms }

\* the order in which the keys of an object are written
KeyOrder == <<"a", "c">>

RECURSIVE Render(_, _)
RECURSIVE RenderMembers(_, _, _)
RECURSIVE RenderItems(_, _, _)

\* the text of a value, its strings quoted in the style q ("dq" or "sq")
Render(value, q) ==
    CASE value.t = "str"  -> <<Tok(q, value.v)>>
      [] value.t = "num"  -> <<Tok("num", value.v)>>
      [] value.t = "list" -> <<Punct("[")>> \o RenderItems(value.items, 1, q) \o <<Punct("]")>>
      [] value.t = "obj"  -> <<Punct("{")>> \o RenderMembers(value.f, 1, q) \o <<Punct("}")>>

RenderItems(items, n, q) ==
    IF n > Len(items) THEN <<>>
    ELSE Render(items[n], q)
         \o (IF n < Len(items) THEN <<Punct(",")>> ELSE <<>>)
         \o RenderItems(items, n + 1, q)

RenderMembers(f, n, q) ==
    IF n > Len(KeyOrder) THEN <<>>
    ELSE IF KeyOrder[n] \notin DOMAIN f THEN RenderMembers(f, n + 1, q)
    ELSE <<Tok(q, KeyOrder[n]), Punct(":")>> \o Render(f[KeyOrder[n]], q)
         \o (IF \E m \in (n + 1)..Len(KeyOrder) : KeyOrder[m] \in DOMAIN f
             THEN <<Punct(",")>> ELSE <<>>)
         \o RenderMembers(f, n + 1, q)

\* the text of a value, with a comma before its last closing brace or bracket
\* when trailing is asked for and the value is a container that is not empty
RenderText(value, q, trailing) ==
    LET plain == Render(value, q)
    IN  IF trailing /\ Len(plain) > 2
        THEN SubSeq(plain, 1, Len(plain) - 1) \o <<Punct(","), plain[Len(plain)]>>
        ELSE plain

Rendering(value, q, trailing) ==
    [text |-> RenderText(value, q, trailing), of |-> value, quote |-> q,
     trailing |-> trailing, prose |-> FALSE]

\* a rendering with a word of prose before and after it
InProse(r) ==
    [r EXCEPT !.text = <<Tok("word", "Answer")>> \o @ \o <<Tok("word", "thanks")>>,
              !.prose = TRUE]

Raw(toks) == [text |-> toks, of |-> None, quote |-> "", trailing |-> FALSE, prose |-> FALSE]

RawTexts ==
    { <<>>,
      <<Tok("word", "sorry")>>,
      <<Tok("sq", "b")>>,
      <<Punct("{"), Tok("dq", "a"), Punct(":")>>,
      <<Punct("{"), Tok("dq", "a"), Punct(":"), Tok("num", "1"), Punct("}"),
        Punct("{"), Tok("dq", "c"), Punct(":"), Tok("num", "1"), Punct("}")>>,
      <<Punct("{"), Tok("dq", "a"), Punct(":"), Tok("word", "sorry"), Punct("}")>>,
      <<Tok("deep", "")>>,
      <<Punct("{"), Tok("dq", "a"), Punct(":"), Tok("deep", "")>>,
      <<Tok("word", "Answer"), Punct("{"), Tok("dq", "a"), Punct(":"), Tok("deep", ""),
        Punct("}")>>,
      <<Punct("{"), Tok("sq", "a"), Punct(":"), Tok("deep", ""), Punct(",")>> }

ParseInputs ==
    LET renderings == { Rendering(v, q, c) :
                          v \in Values(MaxDepth), q \in {"dq", "sq"}, c \in BOOLEAN }
    IN  renderings
        \cup { InProse(r) : r \in { x \in renderings : x.of.t = "obj" } }
        \cup { Raw(toks) : toks \in RawTexts }

ParseInit ==
    /\ NoRequest
    /\ pc = "parse"
    /\ arg \in ParseInputs
    /\ ret = NoCall
    /\ peer = NoPeer

ParseCalled ==
    /\ pc = "parse"
    /\ pc' = "parsed"
    /\ ret' = safe_json_parse(arg.text)
    /\ UNCHANGED <<text, age, i, j, k, extracted_drugs, interactions, age_category,
                   dosage_recommendations, alternatives, result, raised, calls,
                   replies, kb_lookups, arg, peer>>

SpecParse == ParseInit /\ [][ParseCalled]_vars

-----------------------------------------------------------------------------
(* Vocabulary of the properties *)

\* the request is one the request boundary of the design admits: a text that is
\* not empty and an age that is not negative
ValidRequest == text # <<>> /\ age >= 0

\* the extraction call has been answered
Extracted == Len(replies) >= 1

\* every mention's name is a string
AllNamesStr == \A n \in DOMAIN extracted_drugs : extracted_drugs[n].word.t = "str"

\* the oracle answered a pair call with a parseable object reporting an interaction
ReplyPositive(reply) ==
    /\ reply.kind = "text"
    /\ ParseSpan(reply).status = "ok"
    /\ Truthy(Get(ParseSpan(reply).value, "has_interaction", JBool("false")))

\* the oracle call failed: it raised, or its text holds no parseable object
ReplyFailed(reply) == reply.kind = "raise" \/ ParseSpan(reply).status # "ok"

\* the pair calls answered so far, as indices into calls
AnsweredPairCalls == { n \in DOMAIN replies : calls[n].kind = "pair" }

ResultFields ==
    {"extracted_drugs", "interactions", "dosage_recommendations", "alternatives",
     "ai_insights", "warnings"}

-----------------------------------------------------------------------------
(* C1: if the oracle call made during drug extraction fails, extraction    *)
(* yields an empty mention list and analyze_prescription returns a result  *)
(* reporting no drugs; the failure does not reach the caller.              *)
(* The code lets the exception escape: extract_drugs awaits                *)
(* generate_response outside any try, and analyze_prescription has none.   *)
C1_ExtractionFailureContained ==
    (ValidRequest /\ Extracted /\ replies[1] = Raise) =>
        /\ raised = ""
        /\ pc = "done"
        /\ result.extracted_drugs = <<>>

(* C2: whatever the dosage calls answer (valid object, empty object,       *)
(* unparseable text, raised error), there is exactly one advisory per      *)
(* mention once the dosage loop is over.                                   *)
(* The code drops the mention whose call raised (None) or answered {}.     *)
C2_OneAdvisoryPerMention ==
    (ValidRequest /\ pc \in {"alt", "done"}) => Len(dosage_recommendations) = Len(extracted_drugs)

\* the boundary table of the data model: <1, <2, <12, <18, <65, else
AgeTable(a) ==
    CASE a < 1  -> "Neonate"
      [] a >= 1 /\ a < 2   -> "Infant"
      [] a >= 2 /\ a < 12  -> "Child"
      [] a >= 12 /\ a < 18 -> "Adolescent"
      [] a >= 18 /\ a < 65 -> "Adult"
      [] a >= 65 -> "Elderly"

(* C3: the age category the pipeline uses for dosage advice follows the    *)
(* boundary table for every age >= 0, and _get_age_category agrees with    *)
(* calculate_age_category.                                                  *)
(* _get_age_category has no Neonate branch: age 0 is "Infant".             *)
C3_AgeCategoryFollowsTable ==
    (age_category # "" /\ age >= 0) =>
        /\ age_category = AgeTable(age)
        /\ _get_age_category(age) = calculate_age_category(age)

(* C4: for every pair stored in the interaction table and every mention    *)
(* list holding both names, in any letter case and either order, whatever  *)
(* the oracle answers, the interactions hold a record for that pair with   *)
(* exactly the stored severity, warning and recommendation.                *)
C4_KnownPairReported ==
    (Extracted /\ AllNamesStr) =>
        \A a, b \in DOMAIN extracted_drugs :
            LET key == <<lower(extracted_drugs[a].word.v), lower(extracted_drugs[b].word.v)>>
            IN  (a # b /\ key \in DOMAIN db_interactions) =>
                    /\ raised = ""
                    /\ \E n \in DOMAIN interactions :
                          /\ {lower(interactions[n].drug1.v), lower(interactions[n].drug2.v)}
                                = {key[1], key[2]}
                          /\ interactions[n].severity = db_interactions[key].severity
                          /\ interactions[n].warning = db_interactions[key].warning
                          /\ interactions[n].recommendation
                                = db_interactions[key].recommendation

\* the stored pair, reversed and in capitals, was analysed to the end
C4_Witness ==
    /\ ValidRequest
    /\ pc = "done"
    /\ Len(extracted_drugs) >= 2
    /\ extracted_drugs[1].word = JStr("ASPIRIN")
    /\ extracted_drugs[2].word = JStr("Warfarin")
    /\ \E n \in DOMAIN interactions : interactions[n].severity = JStr("HIGH")

(* C5: every interaction record carries an origin tag, KNOWLEDGE_BASE or   *)
(* ORACLE.                                                                 *)
(* The records of both sources have the keys drug1, drug2, severity,       *)
(* warning, recommendation and nothing else.                               *)
C5_OriginTagged ==
    ValidRequest =>
        \A n \in DOMAIN interactions :
            /\ "origin" \in DOMAIN interactions[n]
            /\ interactions[n].origin \in {JStr("KNOWLEDGE_BASE"), JStr("ORACLE")}

(* C6: when the table has an entry for a pair and the oracle reports an    *)
(* interaction for the same pair, the interactions hold both records, also *)
(* when their severities differ.                                           *)
C6_BothVerdictsKept ==
    \A c \in AnsweredPairCalls :
        LET drug1 == calls[c].args[1]
            drug2 == calls[c].args[2]
            stored == _get_interaction(lower(drug1.v), lower(drug2.v))
            said == ParseSpan(replies[c]).value
        IN  (ReplyPositive(replies[c]) /\ stored # None) =>
                \E a, b \in DOMAIN interactions :
                    /\ a # b
                    /\ interactions[a].drug1 = JStr(title(drug1.v))
                    /\ interactions[a].drug2 = JStr(title(drug2.v))
                    /\ interactions[a].severity = stored.severity
                    /\ interactions[a].warning = stored.warning
                    /\ interactions[a].recommendation = stored.recommendation
                    /\ interactions[b].drug1 = drug1
                    /\ interactions[b].drug2 = drug2
                    /\ interactions[b].severity = Get(said, "severity", JStr("MEDIUM"))
                    /\ interactions[b].warning
                          = Get(said, "warning", JStr("Potential interaction detected"))

\* the table says HIGH, the oracle's record says MEDIUM, both are returned
C6_Witness ==
    /\ ValidRequest
    /\ pc = "done"
    /\ \E c \in AnsweredPairCalls :
          /\ ReplyPositive(replies[c])
          /\ _get_interaction(lower(calls[c].args[1].v), lower(calls[c].args[2].v)) # None
          /\ \E a, b \in DOMAIN result.interactions :
                /\ result.interactions[a].severity = JStr("HIGH")
                /\ result.interactions[b].severity = JStr("MEDIUM")
                /\ result.interactions[b].drug1 = calls[c].args[1]

\* what the answered pair calls from index c on contribute, a failed call and a
\* call reporting no interaction alike contributing nothing
RECURSIVE OracleRecordsFrom(_)
OracleRecordsFrom(c) ==
    IF c > Len(replies) THEN <<>>
    ELSE (IF calls[c].kind = "pair" /\ ReplyPositive(replies[c])
          THEN <<PairRecord(calls[c].args[1], calls[c].args[2],
                            ParseSpan(replies[c]).value)>>
          ELSE <<>>)
         \o OracleRecordsFrom(c + 1)

\* the pair calls issued so far, in order
PairCalls == SelectSeq(calls, LAMBDA c : c.kind = "pair")

ExtractionHealthy ==
    /\ Extracted
    /\ replies[1].kind = "text"
    /\ _format_extracted_drugs(
           Get(_parse_drug_extraction(replies[1], text), "drugs", JList(<<>>))).raises = ""
    /\ AllNamesStr

(* C8: whatever pattern of failures hits the calls made after extraction   *)
(* (pair, dosage, alternatives), analyze_prescription does not raise, and  *)
(* the result it returns has all six fields.                               *)
C8_LaterFailuresContained ==
    ExtractionHealthy =>
        /\ raised = ""
        /\ pc # "raised"
        /\ pc = "done" => DOMAIN result = ResultFields

\* a request with two mentions returned although a call after extraction raised
C8_Witness ==
    /\ ValidRequest
    /\ pc = "done"
    /\ ExtractionHealthy
    /\ Len(extracted_drugs) >= 2
    /\ \E n \in 2..Len(replies) : replies[n] = Raise
    /\ DOMAIN result = ResultFields

(* C9: for any text the oracle returns for the extraction call (no object, *)
(* an object without a drug list, a drug list that is no list of objects,  *)
(* entries with missing or wrongly typed fields), a valid mention list is  *)
(* produced and analyze_prescription does not raise.                       *)
(* A "drugs" value that is null or a non-empty string, a list entry that   *)
(* is no object, and a name that is no string (two or more mentions) or    *)
(* that is a list all make an exception escape.                            *)
C9_MalformedExtractionContained ==
    (ValidRequest /\ Extracted /\ replies[1].kind = "text") => (raised = "" /\ pc # "raised")

(* C10: with fewer than 2 mentions _analyze_interactions returns the empty *)
(* list at once: the table is not consulted and no pair call is issued.    *)
C10_NoPairNoLookup ==
    (Extracted /\ Len(extracted_drugs) < 2) =>
        /\ kb_lookups = 0
        /\ interactions = <<>>
        /\ \A n \in DOMAIN calls : calls[n].kind # "pair"

\* a single mention went through the whole pipeline
C10_Witness ==
    /\ ValidRequest
    /\ pc = "done"
    /\ Len(extracted_drugs) = 1
    /\ Len(result.dosage_recommendations) = 1
    /\ result.interactions = <<>>

\* the alternatives calls issued so far, in order
AltCalls == SelectSeq(calls, LAMBDA c : c.kind = "alt")

\* the alternatives calls answered so far, as indices into calls
AnsweredAltCalls == { n \in DOMAIN replies : calls[n].kind = "alt" }

\* the first min(3, n) mentions of the list are asked about, in order, and nobody else
FirstThreeAsked ==
    LET n == Len(extracted_drugs)
        cap == IF n < 3 THEN n ELSE 3
    IN  /\ Len(AltCalls) <= cap
        /\ \A m \in DOMAIN AltCalls : AltCalls[m].args = <<extracted_drugs[m].word>>
        /\ pc = "alt" => Len(AltCalls) = k
        /\ pc = "done" => Len(AltCalls) = cap

\* the oracle's text holds an object
ReplyParsed(reply) == reply.kind = "text" /\ ParseSpan(reply).status = "ok"

(* C11 as stated: _find_alternatives asks the oracle about exactly the     *)
(* first min(3, n) mentions, and the returned map has an entry for a drug  *)
(* exactly when one of those calls was about it and its response parsed to *)
(* an object.                                                              *)
(* `if alt_info:` also drops a response that parsed to the empty object.   *)
C11_EntryIffParsed ==
    (ValidRequest /\ pc \in {"alt", "done"}) =>
        /\ FirstThreeAsked
        /\ \A c \in AnsweredAltCalls :
              ReplyParsed(replies[c]) =>
                  \E n \in DOMAIN alternatives : alternatives[n].key = calls[c].args[1]
        /\ \A n \in DOMAIN alternatives :
              \E c \in AnsweredAltCalls :
                  calls[c].args[1] = alternatives[n].key /\ ReplyParsed(replies[c])

\* the answered alternatives calls about `word` whose response can be stored
StoredFor(word) ==
    { c \in AnsweredAltCalls :
        /\ calls[c].args[1] = word
        /\ Hashable(word)
        /\ ReplyParsed(replies[c])
        /\ Truthy(ParseSpan(replies[c]).value) }

(* C11, amended: _find_alternatives asks the oracle about exactly the      *)
(* first min(3, n) mentions; the map has an entry for a name exactly when  *)
(* one of those calls was about that name, the name can be a map key and   *)
(* the response parsed to a non-empty object, and the entry is the latest  *)
(* such object.  A call that failed, a response that did not parse and the *)
(* empty object leave no entry.                                            *)
C11_EntryIffParsedNonEmpty ==
    pc \in {"alt", "done"} =>
        /\ FirstThreeAsked
        /\ \A c \in AnsweredAltCalls :
              (StoredFor(calls[c].args[1]) # {}) <=>
                  (\E n \in DOMAIN alternatives : alternatives[n].key = calls[c].args[1])
        /\ \A n \in DOMAIN alternatives :
              LET from == StoredFor(alternatives[n].key)
              IN  /\ from # {}
                  /\ \A m \in DOMAIN alternatives :
                        alternatives[m].key = alternatives[n].key => m = n
                  /\ alternatives[n].value
                        = ParseSpan(replies[CHOOSE c \in from : \A d \in from : d <= c]).value

\* four mentions, three asked about, one answered with {} and left out
C11_Witness ==
    /\ pc = "done"
    /\ Len(extracted_drugs) = 4
    /\ Len(AltCalls) = 3
    /\ \E c \in AnsweredAltCalls :
          /\ replies[c] = Text("json", EmptyDict)
          /\ calls[c].args[1] = JStr("Warfarin")
    /\ Len(result.alternatives) = 1
    /\ result.alternatives[1].key = JStr("Aspirin")

\* the oracle returned a text that holds no parseable object
ReplyUnparsed(reply) == reply.kind = "text" /\ ParseSpan(reply).status # "ok"

\* the dosage calls answered so far, as indices into calls
AnsweredDosageCalls == { n \in DOMAIN replies : calls[n].kind = "dosage" }

(* C12: whenever the oracle's dosage response cannot be parsed, the        *)
(* advisory returned for the mention is the deterministic fallback: drug = *)
(* the requested drug, age_category = the category computed for the age,   *)
(* recommendation = the fixed template naming that category, exactly one   *)
(* consult-provider warning and exactly one monitoring note.               *)
C12_FallbackOnUnparsed ==
    [][ (pc = "dosage" /\ Len(replies') = Len(replies) + 1
                       /\ ReplyUnparsed(replies'[Len(replies')])) =>
            dosage_recommendations' =
                Append(dosage_recommendations,
                       JObj([drug |-> extracted_drugs[k].word,
                             age_category |-> JStr(_get_age_category(age)),
                             recommendation |-> JStr(FallbackText(_get_age_category(age))),
                             warnings |-> JList(<<JStr(
                                 "Consult healthcare provider for appropriate dosing")>>),
                             monitoring |-> JList(<<JStr(
                                 "Regular monitoring recommended")>>)])) ]_vars

\* an unparseable dosage answer about Warfarin for a patient of 68 was turned
\* into the fallback advisory for elderly patients
C12_Witness ==
    /\ pc = "done"
    /\ age = 68
    /\ \E c \in AnsweredDosageCalls :
          /\ ReplyUnparsed(replies[c])
          /\ calls[c].args[1] = JStr("Warfarin")
          /\ \E n \in DOMAIN result.dosage_recommendations :
                LET advisory == result.dosage_recommendations[n]
                IN  /\ advisory.f.drug = JStr("Warfarin")
                    /\ advisory.f.age_category = JStr("Elderly")
                    /\ advisory.f.recommendation = JStr(
                          "Standard adult dosing may need adjustment for elderly patients")
                    /\ Len(advisory.f.warnings.items) = 1
                    /\ Len(advisory.f.monitoring.items) = 1

Pediatric == "Pediatric patient - dosages may need adjustment"
Elderly == "Elderly patient - increased risk of adverse effects"
Polypharmacy == "Polypharmacy detected - review for potential drug interactions"
HighRiskCount == "{n} high-risk drug interactions detected!"

\* the list of warnings holds the warning with this text
Warns(warnings, t) == \E n \in DOMAIN warnings : warnings[n].text = t

(* C13: _generate_warnings emits the pediatric warning exactly when        *)
(* age < 18 and the elderly warning exactly when age > 65, never both, and *)
(* neither for an age in 18..65 (65 included).                             *)
C13_AgeWarnings ==
    pc = "warned" =>
        /\ Warns(ret, Pediatric) <=> arg.age < 18
        /\ Warns(ret, Elderly) <=> arg.age > 65
        /\ ~(Warns(ret, Pediatric) /\ Warns(ret, Elderly))
        /\ (arg.age >= 18 /\ arg.age <= 65) =>
               (~Warns(ret, Pediatric) /\ ~Warns(ret, Elderly))

\* at 65, with six mentions and HIGH records, the age warnings stay away
C13_Witness ==
    /\ pc = "warned"
    /\ arg.age = 65
    /\ Len(arg.drugs) = 6
    /\ Len(ret) = 2
    /\ ~Warns(ret, Pediatric)
    /\ ~Warns(ret, Elderly)

\* the warning the table stores for warfarin with aspirin; it mentions bleeding
BleedingWarning == JStr("Increased risk of bleeding")

(* C14: the high-risk warning is emitted exactly when at least one         *)
(* interaction record, from the table or from the oracle, has severity     *)
(* HIGH, and it reports the number of such records; for the mentions       *)
(* [Warfarin, Aspirin] and age 68 the result holds the table's HIGH record *)
(* with its bleeding warning, the elderly warning and the high-risk        *)
(* warning.                                                                *)
C14_HighRiskWarning ==
    pc = "done" =>
        LET high == { n \in DOMAIN result.interactions :
                        result.interactions[n].severity = JStr("HIGH") }
        IN  /\ Warns(result.warnings, HighRiskCount) <=> high # {}
            /\ \A n \in DOMAIN result.warnings :
                  result.warnings[n].text = HighRiskCount =>
                      result.warnings[n].n = Cardinality(high)
            /\ ( /\ age = 68
                 /\ Len(extracted_drugs) = 2
                 /\ AllNamesStr
                 /\ lower(extracted_drugs[1].word.v) = "warfarin"
                 /\ lower(extracted_drugs[2].word.v) = "aspirin" ) =>
                   /\ \E n \in high :
                         /\ result.interactions[n].drug1 = JStr("Warfarin")
                         /\ result.interactions[n].drug2 = JStr("Aspirin")
                         /\ result.interactions[n].warning = BleedingWarning
                   /\ Warns(result.warnings, Elderly)
                   /\ Warns(result.warnings, HighRiskCount)

\* Warfarin and Aspirin at 68: the table and the oracle both say HIGH, and the
\* warnings are the high-risk warning counting two records and the elderly warning
C14_Witness ==
    /\ pc = "done"
    /\ age = 68
    /\ Len(extracted_drugs) = 2
    /\ extracted_drugs[1].word = JStr("Warfarin")
    /\ lower(extracted_drugs[2].word.v) = "aspirin"
    /\ Len(result.interactions) = 2
    /\ result.interactions[1].warning = BleedingWarning
    /\ result.warnings = <<[text |-> HighRiskCount, n |-> 2], [text |-> Elderly, n |-> 0]>>

(* C15: _generate_warnings emits the polypharmacy warning exactly when     *)
(* there are more than 5 mentions (not at 5, always from 6 on), whatever   *)
(* the interaction list and the age.                                       *)
C15_Polypharmacy ==
    pc = "warned" => (Warns(ret, Polypharmacy) <=> Len(arg.drugs) > 5)

\* six mentions, no interaction, an adult: the polypharmacy warning alone
C15_Witness ==
    /\ pc = "warned"
    /\ Len(arg.drugs) = 6
    /\ arg.interactions = <<>>
    /\ arg.age = 40
    /\ ret = <<[text |-> Polypharmacy, n |-> 0]>>

\* extraction returned an empty mention list
NoMentions == Extracted /\ pc # "raised" /\ Len(extracted_drugs) = 0

\* the returned result but for its warnings, and the calls issued
EmptyAnalysis ==
    /\ pc = "done"
    /\ result.extracted_drugs = <<>>
    /\ result.interactions = <<>>
    /\ result.dosage_recommendations = <<>>
    /\ result.alternatives = <<>>
    /\ result.ai_insights.prescription_complexity = "Simple"
    /\ result.ai_insights.total_drugs_found = 0
    /\ Len(calls) = 1
    /\ calls[1].kind = "extract"

(* C16 as stated: with an empty mention list analyze_prescription (called  *)
(* with a text that is not empty and an age that is not negative) returns  *)
(* interactions = [], dosage_recommendations = [], alternatives = {},      *)
(* warnings = [] and complexity "Simple", and issues no oracle call after  *)
(* the extraction call.                                                    *)
(* The age warning does not depend on the mentions: at 68 (or at 0) the    *)
(* warnings are not empty.                                                 *)
C16_EmptyListEmptyWarnings ==
    (NoMentions /\ text # <<>> /\ age >= 0) => (EmptyAnalysis /\ result.warnings = <<>>)

(* C16, amended: with an empty mention list analyze_prescription returns   *)
(* interactions = [], dosage_recommendations = [], alternatives = {} and   *)
(* complexity "Simple", issues no oracle call after the extraction call,   *)
(* and its warnings hold no polypharmacy and no high-risk warning: they    *)
(* are [] for an age in 18..65 and otherwise exactly the age warning       *)
(* (pediatric below 18, elderly above 65).                                 *)
C16_EmptyListAgeWarningOnly ==
    NoMentions =>
        /\ EmptyAnalysis
        /\ result.warnings =
              (IF age < 18 THEN <<[text |-> Pediatric, n |-> 0]>>
               ELSE IF age > 65 THEN <<[text |-> Elderly, n |-> 0]>>
               ELSE <<>>)

\* an adult's request in which no drug was found: nothing to report, no warning
C16_Witness ==
    /\ NoMentions
    /\ age = 40
    /\ replies[1].kind = "text"
    /\ result.warnings = <<>>
    /\ result.ai_insights.prescription_complexity = "Simple"
    /\ Len(calls) = 1

\* the three attempts of safe_json_parse on a text, each on its own
Attempts(toks) ==
    <<loads(toks),
      IF BraceSpan(toks).found THEN loads(BraceSpan(toks).group) ELSE DecodeError,
      loads(Repaired(toks))>>

(* C17: safe_json_parse lets no exception escape, whatever the text: it    *)
(* returns the value of the first of its three attempts (whole text, brace *)
(* span, repaired text) that succeeds, and null when all three fail.       *)
(* Only json.JSONDecodeError is caught: the RecursionError json.loads      *)
(* raises on a text nested deeper than the recursion limit escapes.        *)
C17_NothingEscapes ==
    pc = "parsed" =>
        LET tries == Attempts(arg.text)
            good == { n \in 1..3 : tries[n].err = "" }
        IN  /\ ret.raises = ""
            /\ good = {} => ret.value = None
            /\ good # {} => ret.value = tries[CHOOSE n \in good : \A m \in good : n <= m].value

\* the text is strictly valid: json.loads accepts it as it is
StrictlyValid(toks) == loads(toks).err = ""

(* C18: for every strictly valid text safe_json_parse returns the value    *)
(* that parsing the text directly gives, which is the value the text was   *)
(* written from: nothing is repaired and nothing is lost.                  *)
C18_ValidTextRoundTrip ==
    (pc = "parsed" /\ StrictlyValid(arg.text)) =>
        /\ ret = Returned(loads(arg.text).value)
        /\ arg.of # None => ret.value = arg.of

\* a list holding an object came back as the list, not as the object inside it
C18_Witness ==
    /\ pc = "parsed"
    /\ StrictlyValid(arg.text)
    /\ arg.of = JList(<<JObj([a |-> JStr("b")])>>)
    /\ ret.value.t = "list"
    /\ ret.value.items[1].f["a"] = JStr("b")

(* C19: for every object text whose only defects are single-quoted keys    *)
(* and values and a trailing comma before a closing bracket,               *)
(* safe_json_parse returns what it returns for the repaired text (double   *)
(* quotes, no trailing comma).                                             *)
(* The repair requotes a single-quoted string only next to a colon: a      *)
(* single-quoted string inside a list stays, and the result is null.       *)
C19_RepairedLikeClean ==
    ( /\ pc = "parsed"
      /\ arg.of.t = "obj"
      /\ arg.quote = "sq" /\ arg.trailing /\ ~arg.prose
      /\ ~StrictlyValid(arg.text) ) =>
        ret = safe_json_parse(RenderText(arg.of, "dq", FALSE))

(* C20: a request with an empty prescription text or a negative age is     *)
(* rejected by the /analyze handler and its request model before the       *)
(* pipeline is entered: analyze_prescription is not called and no oracle   *)
(* call is made for it.                                                    *)
(* PrescriptionRequest declares text: str and age: int and nothing more,   *)
(* and the handler passes both on without looking at them.                 *)
C20_InvalidRequestRejected ==
    (text = <<>> \/ age < 0) => (pc = "request" /\ calls = <<>>)

-----------------------------------------------------------------------------
(* _generate_ai_insights called on its own, on mention lists in which a    *)
(* name comes back with another confidence.                                *)

\* longest mention list handed to _generate_ai_insights
MaxListed == 4

\* Warfarin mentioned with less confidence
DrugWAgain == JObj([name |-> JStr("Warfarin"), confidence |-> JNum("0.5")])

InsightInputs ==
    SeqsUpTo({ FormatDrug(d) : d \in {DrugW, DrugWAgain, DrugA, DrugNameless, DrugListName} },
             MaxListed)

InsightsInit ==
    /\ NoRequest
    /\ pc = "insights"
    /\ arg \in InsightInputs
    /\ ret = NoCall
    /\ peer = NoPeer

InsightsGenerated ==
    /\ pc = "insights"
    /\ pc' = "summarised"
    /\ ret' = _generate_ai_insights(arg)
    /\ UNCHANGED <<text, age, i, j, k, extracted_drugs, interactions, age_category,
                   dosage_recommendations, alternatives, result, raised, calls,
                   replies, kb_lookups, arg, peer>>

SpecInsights == InsightsInit /\ [][InsightsGenerated]_vars

\* the confidence of the last mention that carries the name
LastConfidence(drugs, word) ==
    LET last == CHOOSE n \in DOMAIN drugs :
                    /\ drugs[n].word = word
                    /\ \A m \in DOMAIN drugs : drugs[m].word = word => m <= n
    IN  drugs[last].confidence

(* C21: the insight summary made of a mention list has total_drugs_found   *)
(* equal to the number of mentions, prescription_complexity "Simple" for   *)
(* at most 2 mentions and "Medium" for more (never another tier), and a    *)
(* confidence map with exactly one entry per mentioned name, whose value   *)
(* is the confidence of the mention of that name (of the last one when the *)
(* name is mentioned more than once).                                      *)
C21_InsightSummary ==
    (pc = "summarised" /\ ret.raises = "") =>
        LET drugs == arg
            insights == ret.value
            scores == insights.confidence_scores
        IN  /\ insights.total_drugs_found = Len(drugs)
            /\ insights.prescription_complexity \in {"Simple", "Medium"}
            /\ insights.prescription_complexity = "Simple" <=> Len(drugs) <= 2
            /\ { scores[n].key : n \in DOMAIN scores } =
                  { drugs[n].word : n \in DOMAIN drugs }
            /\ \A n, m \in DOMAIN scores : scores[n].key = scores[m].key => n = m
            /\ \A n \in DOMAIN scores :
                  scores[n].value = LastConfidence(drugs, scores[n].key)

\* three mentions of two names: "Medium", a total of 3, and Warfarin with the
\* confidence of its second mention
C21_Witness ==
    /\ pc = "summarised"
    /\ arg = <<FormatDrug(DrugW), FormatDrug(DrugA), FormatDrug(DrugWAgain)>>
    /\ ret.value.total_drugs_found = 3
    /\ ret.value.prescription_complexity = "Medium"
    /\ ret.value.confidence_scores =
          <<[key |-> JStr("Warfarin"), value |-> JNum("0.5")],
            [key |-> JStr("ASPIRIN"), value |-> JStr("high")]>>

-----------------------------------------------------------------------------
\* what the four oracle-calling handlers do with a response text:
\* `json_match = re.search(r'\{.*\}', response, re.DOTALL)`, then
\* `json.loads(json_match.group())` under `except json.JSONDecodeError: pass`
\* inside `except Exception`; "ok" with the object, "nomatch" or "error"
SearchThenLoads(toks) ==
    LET json_match == BraceSpan(toks)
        parsed == loads(json_match.group)
    IN  IF ~json_match.found THEN [status |-> "nomatch", value |-> None]
        ELSE IF parsed.err = "" THEN [status |-> "ok", value |-> parsed.value]
        ELSE [status |-> "error", value |-> None]

\* the value a handler goes on with: the parsed object, or nothing
WorkedWith(toks) ==
    IF SearchThenLoads(toks).status = "ok" THEN SearchThenLoads(toks).value ELSE None

(* C22: for every response text, the value an oracle-calling component    *)
(* works with equals the value safe_json_parse returns for that text: the  *)
(* strict parse of the whole text, else the parse of the brace span, else  *)
(* the parse of the text repaired for single quotes and trailing commas.   *)
(* Stated for the texts of which safe_json_parse returns an object.        *)
(* The handlers never call safe_json_parse: they parse the brace span      *)
(* only, so an object written with single quotes or with a comma before    *)
(* its closing brace is nothing to them.                                   *)
C22_ParsedByNormalizer ==
    (pc = "parsed" /\ ret.raises = "" /\ ret.value.t = "obj")
        => WorkedWith(arg.text) = ret.value

-----------------------------------------------------------------------------
(* Extraction on its own: _parse_drug_extraction on an oracle text and the *)
(* prescription text, then _format_extracted_drugs on the "drugs" of what  *)
(* it returns, as extract_drugs and analyze_prescription chain them.       *)

\* an entry whose name is present and empty
DrugEmptyName == JObj([name |-> JStr(""), dosage |-> JStr("10mg")])

\* longest drug list of an oracle text handed to the extraction
MaxEntries == 3

MentionInputs ==
    LET entries == {DrugW, DrugA, DrugNameless, DrugEmptyName}
        responses ==
            {Plain, Broken, Text("json", JObj([medications |-> JList(<<>>)]))}
            \cup { Text(form, JObj([drugs |-> JList(l)])) :
                      form \in {"json", "wrapped"}, l \in SeqsUpTo(entries, MaxEntries) }
    IN  [response : responses, original_text : { r.text : r \in Requests }]

MentionsInit ==
    /\ NoRequest
    /\ pc = "mentions"
    /\ arg \in MentionInputs
    /\ ret = NoCall
    /\ peer = NoPeer

MentionsExtracted ==
    /\ pc = "mentions"
    /\ pc' = "formatted"
    /\ ret' = _format_extracted_drugs(
                  Get(_parse_drug_extraction(arg.response, arg.original_text),
                      "drugs", JList(<<>>)))
    /\ UNCHANGED <<text, age, i, j, k, extracted_drugs, interactions, age_category,
                   dosage_recommendations, alternatives, result, raised, calls,
                   replies, kb_lookups, arg, peer>>

SpecMentions == MentionsInit /\ [][MentionsExtracted]_vars

\* the mentions come from the oracle's drug list, not from the lexical fallback
OracleDerived ==
    /\ ParseSpan(arg.response).status = "ok"
    /\ "drugs" \in DOMAIN ParseSpan(arg.response).value.f

\* the oracle's drug list
OracleEntries == ParseSpan(arg.response).value.f.drugs.items

\* the mention takes the entry's field when the entry has it, else the default
FieldOrDefault(mention, entry, field, key, default) ==
    mention[field] = (IF key \in DOMAIN entry.f THEN entry.f[key] ELSE default)

(* C23: every mention the extraction yields has a non-empty name, whatever *)
(* the oracle returned (an entry with no name, an entry whose name is      *)
(* present but empty) and on either path; on the oracle path there is      *)
(* exactly one mention per entry of the oracle's list, in the list's       *)
(* order, with the entry's fields, confidence 0.8 when the entry has none  *)
(* and dosage / frequency "Not specified" when the entry has none.         *)
(* `drug.get("name", "Unknown")` supplies the default for an absent key    *)
(* only: a name that is present and empty stays empty.                     *)
C23_MentionsNamed ==
    (pc = "formatted" /\ ret.raises = "") =>
        /\ \A n \in DOMAIN ret.value :
              ret.value[n].word.t = "str" /\ ret.value[n].word.v # ""
        /\ OracleDerived =>
              /\ Len(ret.value) = Len(OracleEntries)
              /\ \A n \in DOMAIN ret.value :
                    /\ FieldOrDefault(ret.value[n], OracleEntries[n],
                                      "confidence", "confidence", JNum("0.8"))
                    /\ FieldOrDefault(ret.value[n], OracleEntries[n],
                                      "dosage", "dosage", JStr("Not specified"))
                    /\ FieldOrDefault(ret.value[n], OracleEntries[n],
                                      "frequency", "frequency", JStr("Not specified"))
                    /\ "name" \in DOMAIN OracleEntries[n].f =>
                          ret.value[n].word = OracleEntries[n].f.name

\* the provenance a mention carries: its source tags
ProvenanceOf(mention) == mention.sources

\* the provenance of a mention made from an entry of the oracle's list
OracleProvenance == ProvenanceOf(FormatDrug(DrugW))

(* C24: a mention produced by the lexical fallback carries a provenance    *)
(* marker distinct from the one an oracle-derived mention carries.         *)
(* _parse_drug_extraction returns fallback entries in the shape of oracle  *)
(* entries and _format_extracted_drugs gives every mention                 *)
(* sources = ["granite"].                                                  *)
C24_FallbackMarked ==
    (pc = "formatted" /\ ret.raises = "" /\ ~OracleDerived) =>
        \A n \in DOMAIN ret.value : ProvenanceOf(ret.value[n]) # OracleProvenance

-----------------------------------------------------------------------------
\* _analyze_interactions has returned: the loops over the pairs are over
Reconciled == pc \in {"dosage", "alt", "done"}

\* the names of the mentions, as _analyze_interactions collects them
MentionNames == [n \in DOMAIN extracted_drugs |-> extracted_drugs[n].word]

\* how many records of interactions come from the table: the list starts as
\* check_interactions returned it, the oracle's records are appended
TableRecords == Len(DbHits(MentionNames, Pairs(Len(extracted_drugs))))

\* the unordered pair of names a record is about, case set aside
UnorderedPair(record) == {lower(record.drug1.v), lower(record.drug2.v)}

(* C25: for every mention list (repeated names included, as the lexical    *)
(* fallback produces them) the records _analyze_interactions returns hold  *)
(* at most one Knowledge Base record and at most one oracle record for an  *)
(* unordered pair of drug names.                                           *)
(* The loops run over pairs of positions, not of names: a name mentioned   *)
(* twice meets its partner twice.                                          *)
C25_OneRecordPerPairAndSource ==
    (Reconciled /\ ValidRequest) =>
        \A a, b \in DOMAIN interactions :
            (a < b /\ (a <= TableRecords <=> b <= TableRecords))
                => UnorderedPair(interactions[a]) # UnorderedPair(interactions[b])

\* the model's names in the order Python compares str (by code point: capitals
\* before small letters)
CodePointOrder ==
    <<"ADVIL", "ASPIRIN", "Advil", "Aspirin", "IBUPROFEN", "Ibuprofen", "UNKNOWN",
      "Unknown", "WARFARIN", "Warfarin", "ZOLPIDEM", "Zolpidem", "advil", "aspirin",
      "ibuprofen", "unknown", "warfarin", "zolpidem">>

\* s <= t for two of the model's names
LexLeq(s, t) ==
    \E n, m \in DOMAIN CodePointOrder :
        CodePointOrder[n] = s /\ CodePointOrder[m] = t /\ n <= m

(* C26: every interaction record stores its pair canonically: drug1 <=     *)
(* drug2 in lexical order, whatever the order of the mentions.             *)
(* Both sources write the pair in mention order.                           *)
C26_PairStoredCanonically ==
    ValidRequest =>
        \A n \in DOMAIN interactions :
            LexLeq(interactions[n].drug1.v, interactions[n].drug2.v)

-----------------------------------------------------------------------------
(* _check_drug_pair_interaction on its own, given the oracle's answer.     *)

\* the oracle reports an interaction with the given fields
Reporting(fields) ==
    Text("json", JObj([has_interaction |-> JBool("true")] @@ fields))

PairInputs ==
    LET names == {JStr("Warfarin"), JStr("ASPIRIN"), JStr("Advil")}
        severities == {JStr("HIGH"), JStr("MEDIUM"), JStr("LOW"), JStr("high"),
                       JStr("SEVERE"), JNum("3"), None}
        answers == PairReplies \cup {Plain}
                   \cup { Reporting([severity |-> s]) : s \in severities }
    IN  [drug1 : names, drug2 : names, reply : answers]

PairInit ==
    /\ NoRequest
    /\ pc = "check"
    /\ arg \in PairInputs
    /\ ret = NoCall
    /\ peer = NoPeer

PairChecked ==
    /\ pc = "check"
    /\ pc' = "checked"
    /\ ret' = _check_drug_pair_interaction(arg.drug1, arg.drug2, arg.reply)
    /\ UNCHANGED <<text, age, i, j, k, extracted_drugs, interactions, age_category,
                   dosage_recommendations, alternatives, result, raised, calls,
                   replies, kb_lookups, arg, peer>>

SpecPair == PairInit /\ [][PairChecked]_vars

Severities == {JStr("HIGH"), JStr("MEDIUM"), JStr("LOW")}

(* C27: the record _check_drug_pair_interaction makes of an oracle answer  *)
(* (the only records of _analyze_interactions whose severity is not the    *)
(* table's) has a severity in {HIGH, MEDIUM, LOW}, whatever severity the   *)
(* oracle's text gave: none, one in other letters, any other string or     *)
(* value.                                                                  *)
(* `result.get("severity", "MEDIUM")` covers the absent key only; any      *)
(* value present is copied into the record.                                *)
C27_SeverityInEnum ==
    pc = "checked" => \A n \in DOMAIN ret : ret[n].severity \in Severities

-----------------------------------------------------------------------------
\* an oracle call has been issued and not yet answered
InFlight == Len(calls) - Len(replies)

\* the calls a request with these mentions issues when it runs to its end:
\* extraction, the pairs (i, j) with i < j in order, a dosage call per mention
\* in order, an alternatives call for each of the first three mentions in order
ExpectedCalls ==
    LET n == Len(extracted_drugs)
        ps == Pairs(n)
        first == IF n < AlternativesLimit THEN n ELSE AlternativesLimit
    IN  <<Call("extract", <<>>, 300)>>
        \o [p \in DOMAIN ps |->
               Call("pair", <<MentionNames[ps[p][1]], MentionNames[ps[p][2]]>>, 200)]
        \o [m \in 1..n |->
               Call("dosage", <<MentionNames[m], JStr(_get_age_category(age))>>, 250)]
        \o [m \in 1..first |-> Call("alt", <<MentionNames[m]>>, 300)]

\* the advisories that the answered dosage calls from call c on give, in call order
RECURSIVE AdvisoriesFrom(_)
AdvisoriesFrom(c) ==
    IF c > Len(replies) THEN <<>>
    ELSE (IF calls[c].kind = "dosage"
          THEN DosageAppend(<<>>, _get_dosage_recommendation(
                                      calls[c].args[1], calls[c].args[2].v, replies[c]))
          ELSE <<>>)
         \o AdvisoriesFrom(c + 1)

\* the mentions whose alternatives call was answered with something to store, in
\* call order
RECURSIVE SuggestedFrom(_)
SuggestedFrom(c) ==
    IF c > Len(replies) THEN <<>>
    ELSE (IF calls[c].kind = "alt" /\ Truthy(_get_drug_alternatives(replies[c]))
             /\ Hashable(calls[c].args[1])
          THEN <<calls[c].args[1]>> ELSE <<>>)
         \o SuggestedFrom(c + 1)

\* the first occurrences of a sequence's elements, in order
Distinct(s) == SelectSeq([n \in DOMAIN s |-> [at |-> n, x |-> s[n]]],
                         LAMBDA e : \A m \in 1..(e.at - 1) : s[m] # e.x)

(* C28: within one analyze_prescription at most one oracle call is in      *)
(* flight: the calls issued exceed the answers by one while the request    *)
(* awaits and by none otherwise, so each call is issued only after the one *)
(* before it returned or failed.  When the request has returned, the calls *)
(* it issued are, in this order, extraction, the pairs (i, j) with i < j   *)
(* in order, one dosage call per mention in order, one alternatives call   *)
(* for each of the first three mentions in order, and the records the      *)
(* oracle added to interactions, the dosage advisories and the             *)
(* alternatives entries stand in the order of their calls; when it has     *)
(* raised, the calls it issued are the first so many of that sequence.     *)
C28_CallsInSequence ==
    /\ InFlight = (IF pc \in {"extract", "pair", "dosage", "alt"} THEN 1 ELSE 0)
    /\ pc = "raised" =>
          /\ Len(calls) <= Len(ExpectedCalls)
          /\ calls = SubSeq(ExpectedCalls, 1, Len(calls))
    /\ pc = "done" =>
          /\ calls = ExpectedCalls
          /\ SubSeq(result.interactions, TableRecords + 1, Len(result.interactions))
                = OracleRecordsFrom(2)
          /\ result.dosage_recommendations = AdvisoriesFrom(2)
          /\ LET stored == Distinct(SuggestedFrom(2))
             IN  /\ Len(result.alternatives) = Len(stored)
                 /\ \A n \in DOMAIN stored : result.alternatives[n].key = stored[n].x

\* four mentions: 1 + 6 + 4 + 3 calls, all answered, the last dosage call the
\* eleventh and the first alternatives call the twelfth
C28_Witness ==
    /\ pc = "done"
    /\ ValidRequest
    /\ Len(extracted_drugs) = 4
    /\ Len(calls) = 14
    /\ Len(replies) = 14
    /\ calls[7].kind = "pair"
    /\ calls[11].kind = "dosage"
    /\ calls[12].kind = "alt"
    /\ Len(dosage_recommendations) = 4

-----------------------------------------------------------------------------
(* Two requests served at the same time.  The event loop runs one          *)
(* coroutine at a time and switches at an await, so a step is one request  *)
(* receiving an oracle answer and running to its next await.  Both         *)
(* requests are for the same prescription and patient; the oracle answers  *)
(* each call on its own.  The analyzer's fields and the tables of the      *)
(* database are assigned at start-up only, so they are the definitions     *)
(* above for both requests.                                                *)

\* a request before analyze_prescription is entered
Fresh ==
    [pc |-> "request", i |-> 0, j |-> 0, k |-> 0, extracted_drugs |-> <<>>,
     interactions |-> <<>>, age_category |-> "", dosage_recommendations |-> <<>>,
     alternatives |-> <<>>, result |-> None, raised |-> "", calls |-> <<>>,
     kb_lookups |-> 0]

\* analyze_prescription up to the extraction call
Entered(S) == [S EXCEPT !.pc = "extract", !.calls = Append(@, Call("extract", <<>>, 300))]

\* the request resumes with the answer to the call it awaits
Resume(S, reply) ==
    CASE S.pc = "extract" -> OnExtractionReply(S, reply)
      [] S.pc = "pair"    -> OnPairReply(S, reply)
      [] S.pc = "dosage"  -> OnDosageReply(S, reply)
      [] S.pc = "alt"     -> OnAlternativesReply(S, reply)

Awaiting(S) == S.pc \in {"extract", "pair", "dosage", "alt"}

\* the requests whose lexical fallback finds no more mentions than the oracle lists
ConcurrentRequests == { r \in Requests : Len(FallbackDrugs(r.text)) <= MaxMentions }

ConcurrentReplies(kind) ==
    CASE kind = "extract" -> {Plain, Text("json", JObj([drugs |-> JList(<<DrugW, DrugA>>)]))}
      [] kind = "pair"    -> {NoInteraction, InteractionHigh, Raise}
      [] kind = "dosage"  -> {Advice, Raise}
      [] kind = "alt"     -> {Suggestion, Broken}

\* the answers after extraction that are not the nominal one, among rs
DeviationsIn(cs, rs) ==
    Cardinality({ n \in 2..Len(rs) : ~Nominal(cs[n].kind, rs[n]) })

Admitted(S, rs, reply) ==
    /\ reply \in ConcurrentReplies(S.pc)
    /\ S.pc = "extract" \/ Nominal(S.pc, reply) \/ DeviationsIn(S.calls, rs) < MaxDeviations

ConcurrentInit ==
    /\ \E r \in ConcurrentRequests : text = r.text /\ age = r.age
    /\ pc = "request"
    /\ i = 0 /\ j = 0 /\ k = 0
    /\ extracted_drugs = <<>>
    /\ interactions = <<>>
    /\ age_category = ""
    /\ dosage_recommendations = <<>>
    /\ alternatives = <<>>
    /\ result = None
    /\ raised = ""
    /\ calls = <<>>
    /\ replies = <<>>
    /\ kb_lookups = 0
    /\ arg = NoCall
    /\ ret = NoCall
    /\ peer = [state |-> Fresh, replies |-> <<>>]

\* the second request enters analyze_prescription
PeerRequested ==
    /\ peer.state.pc = "request"
    /\ peer' = [peer EXCEPT !.state = Entered(@)]
    /\ UNCHANGED <<text, age, pc, i, j, k, extracted_drugs, interactions, age_category,
                   dosage_recommendations, alternatives, result, raised, calls,
                   replies, kb_lookups, arg, ret>>

\* the first request receives the answer to its pending call
FirstResumed ==
    /\ Awaiting(Current)
    /\ \E reply \in ConcurrentReplies(pc) :
          /\ Admitted(Current, replies, reply)
          /\ replies' = Append(replies, reply)
          /\ Become(Resume(Current, reply))
    /\ UNCHANGED <<text, age, arg, ret, peer>>

\* the second request receives the answer to its pending call
PeerResumed ==
    /\ Awaiting(peer.state)
    /\ \E reply \in ConcurrentReplies(peer.state.pc) :
          /\ Admitted(peer.state, peer.replies, reply)
          /\ peer' = [state |-> Resume(peer.state, reply),
                      replies |-> Append(peer.replies, reply)]
    /\ UNCHANGED <<text, age, pc, i, j, k, extracted_drugs, interactions, age_category,
                   dosage_recommendations, alternatives, result, raised, calls,
                   replies, kb_lookups, arg, ret>>

ConcurrentNext ==
    \/ AnalyzeRequested
    \/ PeerRequested
    \/ FirstResumed
    \/ PeerResumed

SpecConcurrent == ConcurrentInit /\ [][ConcurrentNext]_vars

\* the state a request is in when it is served alone and the oracle gives the
\* answers rs, in this order
RECURSIVE Alone(_, _)
Alone(S, rs) == IF rs = <<>> THEN S ELSE Alone(Resume(S, Head(rs)), Tail(rs))

-----------------------------------------------------------------------------
\* analyze_prescription has returned or raised
Terminated == pc \in {"done", "raised"}

\* the extraction call returned and its drug list was made into mentions
Yielded ==
    /\ Extracted
    /\ replies[1].kind = "text"
    /\ _format_extracted_drugs(
           Get(_parse_drug_extraction(replies[1], text), "drugs", JList(<<>>))).raises = ""

\* 1 + n(n-1)/2 + n + min(n, 3)
CallCount(n) ==
    1 + (n * (n - 1)) \div 2 + n + (IF n < AlternativesLimit THEN n ELSE AlternativesLimit)

\* a request that has not terminated is about to be entered or waits for the
\* answer to one call, and it never issues more calls than the count: once
\* every call is answered, it terminates after at most that many answers
Terminating ==
    /\ ~Terminated => (pc = "request" \/ InFlight = 1)
    /\ Len(calls) <= CallCount(Len(extracted_drugs))

(* C30: provided every oracle call eventually returns or fails,            *)
(* analyze_prescription terminates, and when extraction yielded n mentions *)
(* it has then issued exactly 1 + n(n-1)/2 + n + min(n, 3) oracle calls,   *)
(* whatever the Knowledge Base holds and whichever calls after extraction  *)
(* failed.                                                                 *)
(* It terminates in every run.  The count fails for a list of two or more  *)
(* mentions one of which has a name that is no string: check_interactions  *)
(* raises before the first pair call (the defect of C9).                   *)
C30_TerminatesWithExactCount ==
    ValidRequest =>
        /\ Terminating
        /\ (Terminated /\ Yielded) => Len(calls) = CallCount(Len(extracted_drugs))

====
